---- MODULE Spec2Model ----
(***************************************************************************)
(* Model of tracking.py: the MailAmericas tracking scraper that reads a    *)
(* spreadsheet of tracking codes, extracts the latest status of each code  *)
(* through one shared browser session and writes it back to the sheet.     *)
(* Strings are TLA+ strings and are handled character by character, the    *)
(* way str.strip, str.lower, the `in` operator, slicing and re.search do.  *)
(***************************************************************************)
EXTENDS Integers, Sequences, FiniteSets, TLC

(***************************************************************************)
(* Python values: None is the empty tuple, a present string s is <<s>>.    *)
(***************************************************************************)
None == <<>>
Some(s) == <<s>>

\* `x or ""` of lines 256: None and the empty string both give "".
OrEmpty(x) == IF x = None THEN "" ELSE x[1]

Min(S) == CHOOSE m \in S : \A n \in S : m <= n

(***************************************************************************)
(* Character-level string functions.                                       *)
(***************************************************************************)
CharAt(s, k) == SubSeq(s, k, k)

Whitespace == {" ", "\t", "\n", "\r", "\f"}

Digits == {"0", "1", "2", "3", "4", "5", "6", "7", "8", "9"}

UpperLetters == "ABCDEFGHIJKLMNOPQRSTUVWXYZÁÉÍÓÚÑ"
LowerLetters == "abcdefghijklmnopqrstuvwxyzáéíóúñ"

\* the lower-case letter of each upper-case letter
LowerOf == [c \in {CharAt(UpperLetters, k) : k \in 1..Len(UpperLetters)} |->
              CharAt(LowerLetters, CHOOSE k \in 1..Len(UpperLetters) : CharAt(UpperLetters, k) = c)]

\* str.lower on one character
LowerChar(c) == IF c \in DOMAIN LowerOf THEN LowerOf[c] ELSE c

RECURSIVE Lower(_)
\* str.lower
Lower(s) ==
  IF Len(s) = 0 THEN ""
  ELSE IF Len(s) = 1 THEN LowerChar(s)
  ELSE LET m == Len(s) \div 2
       IN Lower(SubSeq(s, 1, m)) \o Lower(SubSeq(s, m + 1, Len(s)))

\* str.strip
Strip(s) ==
  IF \A k \in 1..Len(s) : CharAt(s, k) \in Whitespace THEN ""
  ELSE LET first == CHOOSE k \in 1..Len(s) :
                      CharAt(s, k) \notin Whitespace /\ \A n \in 1..(k - 1) : CharAt(s, n) \in Whitespace
           last == CHOOSE k \in 1..Len(s) :
                     CharAt(s, k) \notin Whitespace /\ \A n \in (k + 1)..Len(s) : CharAt(s, n) \in Whitespace
       IN SubSeq(s, first, last)

\* the `in` operator on strings: c in t
Contains(c, t) ==
  \E k \in 1..(Len(t) - Len(c) + 1) : SubSeq(t, k, k + Len(c) - 1) = c

\* the slice s[:n]
Prefix(s, n) == IF Len(s) <= n THEN s ELSE SubSeq(s, 1, n)

RECURSIVE Join(_, _)
\* sep.join(list)
Join(sep, list) ==
  IF Len(list) = 0 THEN ""
  ELSE IF Len(list) = 1 THEN list[1]
  ELSE LET m == Len(list) \div 2
       IN Join(sep, SubSeq(list, 1, m)) \o sep \o Join(sep, SubSeq(list, m + 1, Len(list)))

IsDigitAt(t, k) == k >= 1 /\ k <= Len(t) /\ CharAt(t, k) \in Digits

IsCharAt(t, k, c) == k >= 1 /\ k <= Len(t) /\ CharAt(t, k) = c

\* number of consecutive digits starting at position k, counted up to most
DigitRun(t, k, most) ==
  IF \A n \in 0..(most - 1) : IsDigitAt(t, k + n) THEN most
  ELSE Min({n \in 0..(most - 1) : ~IsDigitAt(t, k + n)})

\* \d{4}-\d{2}-\d{2} anchored at position k: the matched text or None
IsoDateAt(t, k) ==
  IF /\ DigitRun(t, k, 4) = 4
     /\ IsCharAt(t, k + 4, "-")
     /\ DigitRun(t, k + 5, 2) = 2
     /\ IsCharAt(t, k + 7, "-")
     /\ DigitRun(t, k + 8, 2) = 2
  THEN Some(SubSeq(t, k, k + 9))
  ELSE None

\* \d{1,2}/\d{1,2}/\d{2,4} anchored at position k (greedy): the matched text or None
SlashDateAt(t, k) ==
  LET d1 == DigitRun(t, k, 2)
      d2 == DigitRun(t, k + d1 + 1, 2)
      d3 == DigitRun(t, k + d1 + d2 + 2, 4)
  IN IF /\ d1 >= 1
        /\ IsCharAt(t, k + d1, "/")
        /\ d2 >= 1
        /\ IsCharAt(t, k + d1 + 1 + d2, "/")
        /\ d3 >= 2
     THEN Some(SubSeq(t, k, k + d1 + d2 + d3 + 1))
     ELSE None

\* the alternation tried at one position, left alternative first
DateAt(t, k) == IF IsoDateAt(t, k) # None THEN IsoDateAt(t, k) ELSE SlashDateAt(t, k)

\* re.search(r"(\d{4}-\d{2}-\d{2}|\d{1,2}/\d{1,2}/\d{2,4})", t): group 1 or None
SearchDate(t) ==
  LET starts == {k \in 1..Len(t) : DateAt(t, k) # None}
  IN IF starts = {} THEN None ELSE DateAt(t, Min(starts))

(***************************************************************************)
(* Configuration and column mapping, lines 32-40.                          *)
(***************************************************************************)
COL_CONTENT == 1
COL_CODE == 2
COL_STATUS == 3
COL_DATE == 4
COL_CARRIER == 5
COL_UPDATED == 6
COL_OBS == 7
COL_DONE == 8

\* the slice [:900] of lines 222 and 238
ObsCap == 900

\* the test len(t) > 20 of _collect_texts
MinFragmentLen == 20

\* the slice code[:6] of _collect_texts
CodePrefixLen == 6

\* the test len(t) >= 8 of the date/time scan
MinWhenLen == 8

\* the four candidate URLs of fetch_status_mailamericas
NumCandidates == 4

(***************************************************************************)
(* Fallback classification, _infer_status_when_carrier.                    *)
(***************************************************************************)
status_candidates ==
  << "Delivered", "Entregado", "En tránsito", "In Transit", "Out for delivery",
     "Llegó a", "Despachado", "Salida", "Arribo", "Procesado",
     "Información recibida", "Label created", "Recibido por Distribuidor" >>

carrier_keywords ==
  << "Correo", "UPS", "DHL", "USPS", "Bolivia", "MailAmericas",
     "La Paz", "Santa Cruz", "Cochabamba" >>

\* for c in list: if c.lower() in t.lower(): found = c; break
FirstContained(list, t) ==
  LET lowered == Lower(t)
      hits == {k \in 1..Len(list) : Contains(Lower(list[k]), lowered)}
  IN IF hits = {} THEN None ELSE Some(list[Min(hits)])

\* mutation of InferFrom: the whole collected text is classified, not one fragment
InferFromWholeText(texts, k) ==
  LET t == Join(" ", texts)
  IN IF k > Len(texts) THEN <<None, None, None>>
     ELSE <<FirstContained(status_candidates, t), SearchDate(t), FirstContained(carrier_keywords, t)>>

RECURSIVE InferFrom(_, _)
\* the loop `for t in texts` from fragment k on: <<status, when, carrier>>
InferFrom(texts, k) ==
  IF k > Len(texts) THEN <<None, None, None>>
  ELSE LET t == texts[k]
           status == FirstContained(status_candidates, t)
       IN IF status # None
          THEN <<status, SearchDate(t), FirstContained(carrier_keywords, t)>>
          ELSE InferFrom(texts, k + 1)

\* _infer_status_when_carrier(texts): (status or "Sin clasificar", when, carrier)
InferStatusWhenCarrier(texts) ==
  LET r == InferFrom(texts, 1)
  IN << IF r[1] = None THEN Some("Sin clasificar") ELSE r[1], r[2], r[3] >>

(***************************************************************************)
(* Structured extraction, lines 183-222.  A step is                        *)
(*   [hasLeft, hasRight : BOOLEAN,                                         *)
(*    ps    : the <p> elements of the left region, in document order,      *)
(*            each [cls : set of CSS classes, text : None or <<string>>],  *)
(*    right : the texts of the span/time/p/div elements of the right       *)
(*            region, in document order]                                   *)
(***************************************************************************)
TitleSelectors == << "p.h6", "p.font-weight-bold", "p.text-md-left.h6", "p" >>

\* does the <p> element p match the CSS selector sel
MatchesSelector(sel, p) ==
  CASE sel = "p.h6" -> "h6" \in p.cls
    [] sel = "p.font-weight-bold" -> "font-weight-bold" \in p.cls
    [] sel = "p.text-md-left.h6" -> {"text-md-left", "h6"} \subseteq p.cls
    [] OTHER -> TRUE

\* (el.text or "").strip() of left.find_element(sel); "" when no element matches
SelectorText(ps, sel) ==
  LET hits == {k \in 1..Len(ps) : MatchesSelector(sel, ps[k])}
  IN IF hits = {} THEN "" ELSE Strip(OrEmpty(ps[Min(hits)].text))

RECURSIVE TitleFrom(_, _)
\* the loop over the title selectors from selector n on
TitleFrom(ps, n) ==
  IF n > Len(TitleSelectors) THEN ""
  ELSE IF SelectorText(ps, TitleSelectors[n]) # "" THEN SelectorText(ps, TitleSelectors[n])
  ELSE TitleFrom(ps, n + 1)

\* lines 203-209
StepObservation(ps) == IF Len(ps) >= 2 THEN Strip(OrEmpty(ps[2].text)) ELSE ""

\* lines 212-219
StepWhen(right) ==
  LET hits == {k \in 1..Len(right) : Len(Strip(right[k])) >= MinWhenLen}
  IN IF hits = {} THEN "" ELSE Strip(right[Min(hits)])

FixedCarrier == "MailAmericas / Correo destino"

\* mutation of StepSkipped: the right region is not required
StepSkippedLeftOnly(step) == ~step.hasLeft \/ TitleFrom(step.ps, 1) = ""

\* lines 185-200: is the step skipped by one of the two `continue`
StepSkipped(step) == ~step.hasLeft \/ ~step.hasRight \/ TitleFrom(step.ps, 1) = ""

\* lines 221-222: the tuple returned for a step that is not skipped
StepRecord(step) ==
  << Some(TitleFrom(step.ps, 1)), Some(StepWhen(step.right)), Some(FixedCarrier),
     Prefix(StepObservation(step.ps), ObsCap) >>

RECURSIVE ExtractFrom(_, _)
\* the loop `for step in steps` from step k on: <<record>> on return, None when it ends
ExtractFrom(steps, k) ==
  IF k > Len(steps) THEN None
  ELSE IF StepSkipped(steps[k]) THEN ExtractFrom(steps, k + 1)
  ELSE Some(StepRecord(steps[k]))

(***************************************************************************)
(* Fallback text collection, _collect_texts.  A document is                *)
(*   [owner     : the tracking code whose navigation loaded it ("" for the *)
(*                page the browser starts on),                             *)
(*    container : is there a div.process-vertical,                         *)
(*    lazy      : scrolls needed before the timeline is in the DOM,        *)
(*    steps     : the div.process-step elements, in document order,        *)
(*    elems     : the other elements, each [sels : the selectors of        *)
(*                collect_selectors it matches, text : None or <<string>>],*)
(*    broken    : the selectors for which find_elements raises]            *)
(***************************************************************************)
collect_selectors ==
  << "div[class*='result']", "div[class*='tracking']", "div[class*='event']",
     "section", "table", "tbody", "tr", "li", "p", "div" >>

\* line 106: t and (code[:6] in t or len(t) > 20)
FragmentKept(t, code) ==
  t # "" /\ (Contains(Prefix(code, CodePrefixLen), t) \/ Len(t) > MinFragmentLen)

\* lines 103-109 for one selector: the texts it appends
SelectorFragments(doc, code, css) ==
  IF css \in doc.broken THEN <<>>
  ELSE LET Hit(e) == css \in e.sels /\ FragmentKept(Strip(OrEmpty(e.text)), code)
           hits == SelectSeq(doc.elems, Hit)
       IN [k \in 1..Len(hits) |-> Strip(OrEmpty(hits[k].text))]

RECURSIVE CollectFrom(_, _, _)
\* the loop over the selectors from selector n on
CollectFrom(doc, code, n) ==
  IF n > Len(collect_selectors) THEN <<>>
  ELSE SelectorFragments(doc, code, collect_selectors[n]) \o CollectFrom(doc, code, n + 1)

\* _collect_texts(driver, code)
CollectTexts(doc, code) == CollectFrom(doc, code, 1)

\* lines 232-238: the tuple returned by the fallback path
FallbackRecord(texts) ==
  IF texts = <<>>
  THEN <<None, None, None, "Sin resultados visibles">>
  ELSE LET r == InferStatusWhenCarrier(texts)
       IN <<r[1], r[2], r[3], Prefix(Join(" | ", texts), ObsCap)>>

(***************************************************************************)
(* The worksheet: a sequence of rows, each a sequence of cell strings.     *)
(* ws.update(values, range_name) takes a range in A1 notation.             *)
(***************************************************************************)
ColumnLetters == "ABCDEFGHIJKLMNOPQRSTUVWXYZ"

\* chr(64 + col)
Chr64(col) == CharAt(ColumnLetters, col)

\* f"{chr(64+c1)}{i}:{chr(64+c2)}{i}"
RangeName(c1, c2, i) == Chr64(c1) \o ToString(i) \o ":" \o Chr64(c2) \o ToString(i)

DigitValue(c) == CHOOSE v \in 0..9 : CharAt("0123456789", v + 1) = c

RECURSIVE ToNat(_)
\* the decimal number written by a string of digits
ToNat(s) ==
  IF Len(s) = 0 THEN 0
  ELSE 10 * ToNat(SubSeq(s, 1, Len(s) - 1)) + DigitValue(CharAt(s, Len(s)))

\* the column number of a column letter
ColumnIndex(c) == CHOOSE k \in 1..Len(ColumnLetters) : CharAt(ColumnLetters, k) = c

\* an A1 range "C2:G2" read as [row1, col1, row2, col2]
ParseRange(name) ==
  LET colon == CHOOSE k \in 1..Len(name) : CharAt(name, k) = ":"
      first == SubSeq(name, 1, colon - 1)
      last == SubSeq(name, colon + 1, Len(name))
  IN [ row1 |-> ToNat(SubSeq(first, 2, Len(first))), col1 |-> ColumnIndex(CharAt(first, 1)),
       row2 |-> ToNat(SubSeq(last, 2, Len(last))), col2 |-> ColumnIndex(CharAt(last, 1)) ]

\* a row as the worksheet holds it after values are written from column col1 on
RowWritten(row, col1, values) ==
  LET width == IF Len(row) >= col1 + Len(values) - 1 THEN Len(row) ELSE col1 + Len(values) - 1
  IN [c \in 1..width |->
        IF c >= col1 /\ c <= col1 + Len(values) - 1 THEN values[c - col1 + 1]
        ELSE IF c <= Len(row) THEN row[c] ELSE ""]

\* ws.update(values=[values], range_name=name): the worksheet afterwards
Update(ws, values, name) ==
  LET r == ParseRange(name)
  IN [ws EXCEPT ![r.row1] = RowWritten(ws[r.row1], r.col1, values)]

\* lines 255-258: the range and the values of the success write
SuccessRange(i) == RangeName(COL_STATUS, COL_OBS, i)

SuccessValues(rec, ts) == <<OrEmpty(rec[1]), OrEmpty(rec[2]), OrEmpty(rec[3]), ts, rec[4]>>

\* mutation of FailureRange: the failure write starts at the status column
FailureRangeFromStatus(i) == RangeName(COL_STATUS, COL_OBS, i)

\* lines 260-263: the range and the values of the failure write
FailureRange(i) == RangeName(COL_UPDATED, COL_OBS, i)

FailureValues(kind, ts) == <<ts, "Error " \o kind>>

\* lines 248-250
RowCode(row) == Strip(IF Len(row) >= COL_CODE THEN row[COL_CODE] ELSE "")

\* mutation of RowDone: the marker compared without lower()
RowDoneCaseSensitive(row) == Strip(IF Len(row) >= COL_DONE THEN row[COL_DONE] ELSE "")

RowDone(row) == Lower(Strip(IF Len(row) >= COL_DONE THEN row[COL_DONE] ELSE ""))

RowIsSkipped(row) == RowCode(row) = "" \/ RowDone(row) = "ok"

(***************************************************************************)
(* Bounds and the inputs drawn from them.                                  *)
(***************************************************************************)
\* most data rows of a worksheet
MaxRows == 2

\* most iterations of the readiness loop before its 30 s window has elapsed
MaxPolls == 2

\* most steps of a timeline given to the structured extractor on its own
MaxSteps == 3

\* most fragments given to the fallback classifier on its own
MaxFrags == 3

RECURSIVE Repeat(_, _)
\* the string s written n times
Repeat(s, n) ==
  IF n = 0 THEN ""
  ELSE IF n = 1 THEN s
  ELSE Repeat(s, n \div 2) \o Repeat(s, n - (n \div 2))

LongText == Repeat("near destination ", 53) \o "end"

HeaderRow == <<"Contenido", "Código", "Último estado", "Fecha", "Carrier", "Actualizado", "Observación", "Control">>

\* data rows as get_all_values may return them; live rows alternate with skipped ones
RowPool ==
  << <<"libro", " PKG001 ", "", "", "", "", "", "">>,
     <<"cable", "AB1234XYZ", "viejo", "ayer", "DHL", "antes", "nota", "okay">>,
     <<"ropa", "PKG002", "Delivered", "2024-04-30", "UPS", "antes", "nota", " Ok ">>,
     <<"vacío", " \t", "", "", "", "", "", "">>,
     <<"lente", "PKG003">>,
     <<"corto">>,
     <<"taza", "PKG004", "", "", "", "", "", "OK">> >>

\* the worksheets of a run: the header and at most MaxRows consecutive rows of the pool
Worksheets ==
  { <<HeaderRow>> \o SubSeq(RowPool, w[1], w[2]) :
      w \in { v \in (1..Len(RowPool)) \X (0..Len(RowPool)) :
                v[2] >= v[1] - 1 /\ v[2] - v[1] + 1 <= MaxRows } }

\* now_bo() at its n-th call of the run: the clock read as "%Y-%m-%d %H:%M:%S %z"
now_bo(n) == "2024-05-01 10:00:0" \o ToString(n) \o " -0400"

\* the kinds of exception the browser session raises
DriverErrors == {"WebDriverException", "TimeoutException"}

\* the kind of exception the worksheet raises
SheetError == "APIError"

Para(cls, text) == [cls |-> cls, text |-> text]

StepNoTitle == [hasLeft |-> TRUE, hasRight |-> TRUE,
                ps |-> <<Para({}, Some("  ")), Para({}, Some("not a title"))>>, right |-> <<"2024-01-01 00:00">>]
StepNoRight == [hasLeft |-> TRUE, hasRight |-> FALSE,
                ps |-> <<Para({"h6"}, Some("Label created"))>>, right |-> <<>>]
StepNoLeft == [hasLeft |-> FALSE, hasRight |-> TRUE, ps |-> <<>>, right |-> <<"2024-01-02 00:00">>]
StepTitledA == [hasLeft |-> TRUE, hasRight |-> TRUE,
                ps |-> <<Para({"h6"}, Some(" Out for delivery ")), Para({}, Some(" near destination\n"))>>,
                right |-> <<"hoy", " 2024-05-01 10:00 ">>]
StepTitledB == [hasLeft |-> TRUE, hasRight |-> TRUE,
                ps |-> <<Para({"font-weight-bold"}, Some("Delivered"))>>, right |-> <<"1/5/24">>]
StepTitledLate == [hasLeft |-> TRUE, hasRight |-> TRUE,
                   ps |-> <<Para({}, None), Para({"text-md-left", "h6"}, Some("In Transit")), Para({}, Some("x"))>>,
                   right |-> <<>>]
StepLong == [hasLeft |-> TRUE, hasRight |-> TRUE,
             ps |-> <<Para({}, Some("Arribo")), Para({}, Some(LongText))>>, right |-> <<"2024-05-02">>]

StepPool == {StepNoTitle, StepNoRight, StepNoLeft, StepTitledA, StepTitledB, StepTitledLate, StepLong}

SeqsUpTo(S, n) == UNION { [1..m -> S] : m \in 0..n }

Elem(sels, text) == [sels |-> sels, text |-> text]

Page(owner, container, lazy, steps, elems, broken) ==
  [owner |-> owner, container |-> container, lazy |-> lazy, steps |-> steps,
   elems |-> elems, broken |-> broken]

\* the page a fresh browser session shows
BlankPage == Page("", FALSE, 0, <<>>, <<>>, {})

\* the documents a navigation for a tracking code may load
PagesOf(code) ==
  { Page(code, TRUE, 0, <<StepNoTitle, StepTitledA, StepTitledB>>, <<>>, {}),
    Page(code, FALSE, 1, <<StepTitledB>>, <<>>, {}),
    Page(code, TRUE, 0, <<>>, <<Elem({"p"}, Some(code \o " sin eventos"))>>, {}),
    Page(code, FALSE, 0, <<StepNoTitle, StepNoRight>>,
         <<Elem({"div"}, Some("Tu paquete fue Despachado el 3/4/2024 por DHL"))>>, {"div"}),
    Page(code, FALSE, 0, <<>>,
         <<Elem({"div[class*='result']", "div"}, Some(" Paquete Entregado en La Paz el 2024-03-01 ")),
           Elem({"p"}, Some(code)), Elem({"li"}, Some("menu"))>>, {}),
    Page(code, FALSE, 0, <<>>, <<Elem({"li"}, Some("inicio")), Elem({"p"}, None)>>, {}) }

\* the document the browser shows after a navigation for a code raised
PagesAfterFailedGet(code, current) ==
  { current, Page(code, FALSE, 0, <<>>, <<Elem({"div"}, Some("This site can't be reached (ERR_TIMED_OUT)"))>>, {}) }

\* lines 140-145
candidate_urls(code) ==
  << "https://www.mailamericas.com/tracking?tracking=" \o code,
     "https://mailamericas.com/tracking?tracking=" \o code,
     "https://tracking.mailamericas.com/?tracking=" \o code,
     "https://tracking.mailamericas.com/track?tracking=" \o code >>

(***************************************************************************)
(* State.                                                                  *)
(***************************************************************************)
VARIABLES
  pc,         \* position of the run: build, row, get, wait, extract, fallback,
              \* write, errwrite, finally, done
  sheet,      \* the worksheet as the spreadsheet service holds it
  rows,       \* rows = ws.get_all_values(), read once at line 243
  i,          \* the row number of the loop of line 247
  code,       \* the tracking code of the row being processed
  attempt,    \* the index of the candidate URL being tried
  polls,      \* iterations of the readiness loop done for this candidate
  doc,        \* the document loaded in the browser session
  url,        \* the URL of the last navigation issued, None before the first
  texts,      \* the fragments collected by the last fallback
  rec,        \* the tuple returned by fetch_status_mailamericas, None before
  recFrom,    \* the owner of the document rec was built from
  exc,        \* the exception being handled or propagating as <<kind, origin>>,
              \* None if none; origin is build, fetch, update or handler
  debug,      \* the save_debug call made since the last navigation, None if none
  session,    \* the browser session: "none", "open" or "quit"
  quits,      \* number of calls of d.quit
  started,    \* the rows for which fetch_status_mailamericas was called, in order
  navs,       \* the URLs navigated to for the current code, in order
  fallbacks,  \* runs of the fallback path for the current code
  writes,     \* the ws.update calls issued, as [row, range, values]
  clock,      \* the calls of now_bo() made so far
  result      \* how main ended: "running", "returned" or "raised"

vars == << pc, sheet, rows, i, code, attempt, polls, doc, url, texts, rec, recFrom,
           exc, debug, session, quits, started, navs, fallbacks, writes, clock, result >>

browser == << doc, url, navs >>
perCode == << code, attempt, polls, fallbacks >>
extraction == << texts, rec, recFrom >>
endOfRun == << session, quits, result >>

InitRun(ws) ==
  /\ pc = "build"
  /\ sheet = ws
  /\ rows = ws
  /\ i = 2
  /\ code = ""
  /\ attempt = 1
  /\ polls = 0
  /\ doc = BlankPage
  /\ url = None
  /\ texts = <<>>
  /\ rec = None
  /\ recFrom = ""
  /\ exc = None
  /\ debug = None
  /\ session = "none"
  /\ quits = 0
  /\ started = <<>>
  /\ navs = <<>>
  /\ fallbacks = 0
  /\ writes = <<>>
  /\ clock = 0
  /\ result = "running"

Init == \E ws \in Worksheets : InitRun(ws)

(***************************************************************************)
(* save_debug(driver, label): the page markup goes to                      *)
(* pagina_debug-<label>.html and a screenshot to last_page.png; either     *)
(* write may fail and the failure is swallowed.                            *)
(***************************************************************************)
DebugFile(label) == "pagina_debug" \o (IF label # "" THEN "-" \o label ELSE "") \o ".html"

SaveDebug(label, htmlOk, pngOk) ==
  [ label |-> label, row |-> i,
    html |-> IF htmlOk THEN Some(DebugFile(label)) ELSE None,
    markupOf |-> IF htmlOk THEN Some(doc.owner) ELSE None,
    png |-> IF pngOk THEN Some("last_page.png") ELSE None ]

\* mutation of NoTimelineLabel: the label without the attempt index
NoTimelineLabelUntagged(n) == "no-timeline"

\* f"no-timeline-{attempt}", f"no-title-{attempt}", f"exception-{attempt}"
NoTimelineLabel(n) == "no-timeline-" \o ToString(n)

NoTitleLabel(n) == "no-title-" \o ToString(n)

ExceptionLabel(n) == "exception-" \o ToString(n)

(***************************************************************************)
(* Control flow of fetch_status_mailamericas and main.                     *)
(***************************************************************************)
\* mutation of AfterCandidate: the fallback after the first failed candidate
AfterCandidateFirstOnly(n) == "fallback"

\* where the loop of line 147 goes after candidate n has failed
AfterCandidate(n) == IF n < NumCandidates THEN "get" ELSE "fallback"

\* `continue` of the loop over the candidates, or its end
NextCandidate ==
  /\ pc' = AfterCandidate(attempt)
  /\ attempt' = IF attempt < NumCandidates THEN attempt + 1 ELSE attempt

\* mutation of OnRowException: no except clause around the row
OnRowExceptionUncaught == "finally"

\* where an exception that leaves fetch_status_mailamericas or the success write goes: line 259
OnRowException == "errwrite"

\* mutation of OnUnhandled: no finally clause around the loop
OnUnhandledNoFinally == "done"

\* where an exception that leaves the handler of line 259 goes: line 264
OnUnhandled == "finally"

\* where the loop of line 247 goes once a row is finished
AfterRow == "row"

\* is the timeline in the DOM after s scrolls: lines 159-166
Ready(d, s) == s >= d.lazy /\ (d.container \/ Len(d.steps) > 0)

\* d = build_driver(), line 245
BuildDriver ==
  /\ pc = "build"
  /\ \/ /\ session' = "open"
        /\ pc' = "row"
        /\ UNCHANGED << exc, result >>
     \/ \E kind \in DriverErrors :
          /\ session' = "none"
          /\ exc' = <<kind, "build">>
          /\ pc' = "done"
          /\ result' = "raised"
  /\ UNCHANGED << sheet, rows, i, perCode, browser, extraction, debug, quits, started, writes, clock >>

\* lines 247-251: the loop head, the skip test, and the call of line 254
NextRow ==
  /\ pc = "row"
  /\ IF i > Len(rows)
     THEN /\ pc' = "finally"
          /\ UNCHANGED << i, perCode, started, navs, debug >>
     ELSE IF RowIsSkipped(rows[i])
     THEN /\ i' = i + 1
          /\ pc' = "row"
          /\ UNCHANGED << perCode, started, navs, debug >>
     ELSE /\ code' = RowCode(rows[i])
          /\ attempt' = 1
          /\ polls' = 0
          /\ fallbacks' = 0
          /\ navs' = <<>>
          /\ debug' = None
          /\ started' = Append(started, i)
          /\ pc' = "get"
          /\ UNCHANGED i
  /\ UNCHANGED << sheet, rows, doc, url, extraction, exc, endOfRun, writes, clock >>

\* lines 148-151: driver.get(url)
Navigate ==
  /\ pc = "get"
  /\ url' = Some(candidate_urls(code)[attempt])
  /\ navs' = Append(navs, candidate_urls(code)[attempt])
  /\ debug' = None
  /\ polls' = 0
  /\ \/ /\ doc' \in PagesOf(code)
        /\ pc' = "wait"
        /\ UNCHANGED attempt
     \/ /\ doc' \in PagesAfterFailedGet(code, doc)
        /\ NextCandidate
  /\ UNCHANGED << sheet, rows, i, code, fallbacks, extraction, exc, endOfRun, started, writes, clock >>

\* lines 156-176: one turn of the readiness loop, or its end
Poll ==
  /\ pc = "wait"
  /\ \/ \* the timeline or a step is found
        /\ polls < MaxPolls
        /\ Ready(doc, polls)
        /\ pc' = "extract"
        /\ UNCHANGED << attempt, polls, exc, debug >>
     \/ \* nothing found, or the lookup raised: scroll and pause
        /\ polls < MaxPolls
        /\ polls' = polls + 1
        /\ UNCHANGED << pc, attempt, exc, debug >>
     \/ \* execute_script raises: nothing in the function catches it
        /\ polls < MaxPolls
        /\ \E kind \in DriverErrors : exc' = <<kind, "fetch">>
        /\ pc' = OnRowException
        /\ UNCHANGED << attempt, polls, debug >>
     \/ \* the window has elapsed
        /\ polls >= 1
        /\ \E htmlOk \in BOOLEAN, pngOk \in BOOLEAN :
             debug' = SaveDebug(NoTimelineLabel(attempt), htmlOk, pngOk)
        /\ NextCandidate
        /\ UNCHANGED << polls, exc >>
  /\ UNCHANGED << sheet, rows, i, code, fallbacks, browser, extraction, endOfRun, started, writes, clock >>

\* lines 178-229: the structured extraction on a ready page
Structured ==
  /\ pc = "extract"
  /\ \/ \* a step with a title: return
        /\ Len(doc.steps) > 0
        /\ ExtractFrom(doc.steps, 1) # None
        /\ rec' = Some(ExtractFrom(doc.steps, 1)[1])
        /\ recFrom' = doc.owner
        /\ pc' = "write"
        /\ UNCHANGED << attempt, debug >>
     \/ \* no step has a title
        /\ Len(doc.steps) > 0
        /\ ExtractFrom(doc.steps, 1) = None
        /\ \E htmlOk \in BOOLEAN, pngOk \in BOOLEAN :
             debug' = SaveDebug(NoTitleLabel(attempt), htmlOk, pngOk)
        /\ NextCandidate
        /\ UNCHANGED << rec, recFrom >>
     \/ \* no step at all (RuntimeError), or find_elements raised
        /\ \E htmlOk \in BOOLEAN, pngOk \in BOOLEAN :
             debug' = SaveDebug(ExceptionLabel(attempt), htmlOk, pngOk)
        /\ NextCandidate
        /\ UNCHANGED << rec, recFrom >>
  /\ UNCHANGED << sheet, rows, i, code, polls, fallbacks, browser, texts, exc, endOfRun, started, writes, clock >>

\* lines 231-238: the fallback path
Fallback ==
  /\ pc = "fallback"
  /\ texts' = CollectTexts(doc, code)
  /\ rec' = Some(FallbackRecord(texts'))
  /\ recFrom' = doc.owner
  /\ fallbacks' = fallbacks + 1
  /\ IF texts' = <<>>
     THEN \E htmlOk \in BOOLEAN, pngOk \in BOOLEAN :
            debug' = SaveDebug("sin-resultados", htmlOk, pngOk)
     ELSE UNCHANGED debug
  /\ pc' = "write"
  /\ UNCHANGED << sheet, rows, i, code, attempt, polls, browser, exc, endOfRun, started, writes, clock >>

\* lines 255-258: the success write
WriteSuccess ==
  /\ pc = "write"
  /\ LET values == SuccessValues(rec[1], now_bo(clock))
         name == SuccessRange(i)
     IN /\ writes' = Append(writes, [row |-> i, range |-> name, values |-> values])
        /\ \/ /\ sheet' = Update(sheet, values, name)
              /\ pc' = AfterRow
              /\ i' = i + 1
              /\ UNCHANGED exc
           \/ \* ws.update raises, before or after the service applied it
              /\ sheet' \in {sheet, Update(sheet, values, name)}
              /\ exc' = <<SheetError, "update">>
              /\ pc' = OnRowException
              /\ UNCHANGED i
  /\ clock' = clock + 1
  /\ UNCHANGED << rows, perCode, browser, extraction, debug, endOfRun, started >>

\* lines 259-263: the failure write
WriteFailure ==
  /\ pc = "errwrite"
  /\ LET values == FailureValues(exc[1], now_bo(clock))
         name == FailureRange(i)
     IN /\ writes' = Append(writes, [row |-> i, range |-> name, values |-> values])
        /\ \/ /\ sheet' = Update(sheet, values, name)
              /\ pc' = AfterRow
              /\ i' = i + 1
              /\ exc' = None
           \/ \* ws.update raises inside the handler: the exception leaves the loop
              /\ sheet' \in {sheet, Update(sheet, values, name)}
              /\ exc' = <<SheetError, "handler">>
              /\ pc' = OnUnhandled
              /\ UNCHANGED i
  /\ clock' = clock + 1
  /\ UNCHANGED << rows, perCode, browser, extraction, debug, endOfRun, started >>

\* lines 264-266: d.quit(), whose own exception is swallowed
Finally ==
  /\ pc = "finally"
  /\ quits' = quits + 1
  /\ session' = "quit"
  /\ pc' = "done"
  /\ result' = IF exc = None THEN "returned" ELSE "raised"
  /\ UNCHANGED << sheet, rows, i, perCode, browser, extraction, exc, debug, started, writes, clock >>

Next ==
  \/ BuildDriver
  \/ NextRow
  \/ Navigate
  \/ Poll
  \/ Structured
  \/ Fallback
  \/ WriteSuccess
  \/ WriteFailure
  \/ Finally

Spec == Init /\ [][Next]_vars

(***************************************************************************)
(* The two extractors on their own: every timeline of at most MaxSteps     *)
(* steps on a ready page, and every page of at most MaxFrags text elements *)
(* after the four candidates have failed.                                  *)
(***************************************************************************)
OneRowSheet(c) == <<HeaderRow, <<"libro", c, "", "", "", "", "", "">>>>

InitAt(position, c, n, d) ==
  /\ pc = position
  /\ sheet = OneRowSheet(c)
  /\ rows = OneRowSheet(c)
  /\ i = 2
  /\ code = c
  /\ attempt = n
  /\ polls = 0
  /\ doc = d
  /\ url = Some(candidate_urls(c)[n])
  /\ texts = <<>>
  /\ rec = None
  /\ recFrom = ""
  /\ exc = None
  /\ debug = None
  /\ session = "open"
  /\ quits = 0
  /\ started = <<2>>
  /\ navs = SubSeq(candidate_urls(c), 1, n)
  /\ fallbacks = 0
  /\ writes = <<>>
  /\ clock = 0
  /\ result = "running"

InitStructured ==
  \E steps \in SeqsUpTo(StepPool, MaxSteps) :
    InitAt("extract", "PKG001", 1, Page("PKG001", TRUE, 0, steps, <<>>, {}))

SpecStructured == InitStructured /\ [][Structured]_vars

FragmentPool ==
  { "random text with code AB1234 only",
    " Paquete Entregado en La Paz el 2024-03-01 ",
    "DELIVERED by ups on 1/2/24, antes Entregado por Correo",
    "Salida de oficina de tránsito internacional",
    "2023-12-31 Cochabamba, Bolivia: sin novedad",
    "menu",
    LongText }

InitFallback ==
  \E frags \in SeqsUpTo(FragmentPool, MaxFrags) :
    InitAt("fallback", "AB1234XYZ", NumCandidates,
           Page("AB1234XYZ", FALSE, 0, <<>>, [k \in 1..Len(frags) |-> Elem({"p"}, Some(frags[k]))], {}))

SpecFallback == InitFallback /\ [][Fallback]_vars

(***************************************************************************)
(* Properties.                                                             *)
(***************************************************************************)
Cell(row, c) == IF c <= Len(row) THEN row[c] ELSE ""

IsBlank(s) == \A k \in 1..Len(s) : CharAt(s, k) \in Whitespace

\* s is "ok" in any letter case with only whitespace around it
IsOkMarker(s) ==
  \E k \in 1..(Len(s) - 1) :
    /\ CharAt(s, k) \in {"O", "o"}
    /\ CharAt(s, k + 1) \in {"K", "k"}
    /\ \A n \in 1..Len(s) : n \notin {k, k + 1} => CharAt(s, n) \in Whitespace

BlankOrDone(row) == IsBlank(Cell(row, COL_CODE)) \/ IsOkMarker(Cell(row, COL_DONE))

InFetch == pc \in {"get", "wait", "extract", "fallback"}

InRow == pc \in {"get", "wait", "extract", "fallback", "write", "errwrite"}

\* C1: a data row whose code is blank or whose done marker is OK is never
\* extracted (no call, no navigation while it is the current row) and never
\* written, whatever the other rows hold.
C1_SkippedRowsUntouched ==
  \A r \in 2..Len(rows) :
    BlankOrDone(rows[r]) =>
      /\ \A k \in DOMAIN started : started[k] # r
      /\ \A k \in DOMAIN writes : writes[k].row # r
      /\ InRow => i # r
      /\ sheet[r] = rows[r]

C1_Witness ==
  /\ pc = "done"
  /\ Len(started) > 0
  /\ Len(writes) > 0
  /\ \E r \in 2..Len(rows) : IsOkMarker(Cell(rows[r], COL_DONE)) /\ ~IsBlank(Cell(rows[r], COL_CODE))

\* the rows whose extraction has been started once the run is at row i
RowsStarted ==
  IF session = "none" THEN {}
  ELSE { r \in 2..Len(rows) : ~BlankOrDone(rows[r]) /\ (r < i \/ (r = i /\ pc # "row")) }

StartedInRowOrder ==
  /\ { started[k] : k \in DOMAIN started } = RowsStarted
  /\ \A k \in DOMAIN started : \A n \in DOMAIN started : k < n => started[k] < started[n]

\* the run timestamp of the write issued after n earlier writes
RunTimestamp(n) == "2024-05-01 10:00:0" \o ToString(n) \o " -0400"

FailureWriteOf(r, kind, ts) ==
  [ row |-> r, range |-> "F" \o ToString(r) \o ":G" \o ToString(r),
    values |-> <<ts, "Error " \o kind>> ]

HandlingFetchError == pc = "errwrite" /\ exc # None /\ exc[2] = "fetch"

\* C2 as stated: an exception raised during extraction is caught, the row gets
\* the run timestamp and "Error <kind>", and the run goes on with the next row.
C2_Original ==
  [][ HandlingFetchError =>
        /\ pc' = "row" /\ i' = i + 1 /\ exc' = None
        /\ Cell(sheet'[i], COL_UPDATED) = RunTimestamp(Len(writes))
        /\ Cell(sheet'[i], COL_OBS) = "Error " \o exc[1] ]_vars

\* C2 amended: an exception raised during extraction is caught at the row
\* level and the failure write (run timestamp, "Error <kind>") is issued for
\* that row; when that write does not itself raise, the exception is not
\* propagated and every later non-skipped row is still extracted, in row order;
\* when it raises, the run stops at that row.
C2_FetchErrorsHandledPerRow ==
  /\ [] StartedInRowOrder
  /\ [][ (exc' # exc /\ exc' # None /\ exc'[2] = "fetch") => (InFetch /\ pc' = "errwrite" /\ i' = i) ]_vars
  /\ [][ HandlingFetchError =>
           /\ writes' = Append(writes, FailureWriteOf(i, exc[1], RunTimestamp(Len(writes))))
           /\ \/ /\ pc' = "row" /\ i' = i + 1 /\ exc' = None
                 /\ Cell(sheet'[i], COL_UPDATED) = RunTimestamp(Len(writes))
                 /\ Cell(sheet'[i], COL_OBS) = "Error " \o exc[1]
              \/ /\ pc' = "finally" /\ i' = i /\ exc' = <<SheetError, "handler">> ]_vars

C2_Witness ==
  /\ pc = "done"
  /\ result = "returned"
  /\ started = <<2, 3>>
  /\ Cell(sheet[2], COL_OBS) = "Error WebDriverException"
  /\ Cell(sheet[3], COL_OBS) # "Error WebDriverException"
  /\ Len(writes) = 2

\* C3: once acquired, the browser session is released exactly once, at the end
\* of the run, on every path out of the row loop, and nothing navigates after
\* the release.
C3_SessionReleasedOnce ==
  /\ [] ( /\ quits <= 1
          /\ (quits = 1) = (session = "quit")
          /\ session = "quit" => pc = "done"
          /\ (pc = "done" /\ session # "none") => (session = "quit" /\ quits = 1)
          /\ pc = "done" => (session = "none") = (exc # None /\ exc[2] = "build") )
  /\ [][ (navs' # navs \/ url' # url \/ doc' # doc) => (session = "open" /\ quits = 0) ]_vars

C3_Witness ==
  /\ pc = "done"
  /\ result = "raised"
  /\ exc = <<SheetError, "handler">>
  /\ quits = 1
  /\ session = "quit"
  /\ i <= Len(rows)

\* C4: a failure while handling one candidate URL (the navigation, or anything
\* in the readiness wait) moves on to the next candidate or to the fallback
\* and is never raised to the caller.
C4_CandidateFailuresStayLocal ==
  [][ (pc \in {"get", "wait"}) => (exc' = None /\ pc' \in {"get", "wait", "extract", "fallback"}) ]_vars

IsPrefixOf(a, b) == Len(a) <= Len(b) /\ \A k \in 1..Len(a) : a[k] = b[k]

\* the steps of a timeline that count as a status entry: both sub-regions, and
\* some title selector whose first matching paragraph has text left after trimming
FirstMatch(ps, sel) == Min({k \in 1..Len(ps) : MatchesSelector(sel, ps[k])})

SelectorGivesTitle(ps, n) ==
  /\ \E k \in 1..Len(ps) : MatchesSelector(TitleSelectors[n], ps[k])
  /\ ~IsBlank(OrEmpty(ps[FirstMatch(ps, TitleSelectors[n])].text))

IsTitled(step) ==
  step.hasLeft /\ step.hasRight /\ \E n \in 1..Len(TitleSelectors) : SelectorGivesTitle(step.ps, n)

TitleOf(step) ==
  LET n == Min({m \in 1..Len(TitleSelectors) : SelectorGivesTitle(step.ps, m)})
  IN Strip(OrEmpty(step.ps[FirstMatch(step.ps, TitleSelectors[n])].text))

TitledSteps(d) == {k \in 1..Len(d.steps) : IsTitled(d.steps[k])}

\* C5: the candidates are navigated in list order; a ready candidate with a
\* titled step returns a structured record and ends the navigations for the
\* code; the fallback runs at most once and only after all four have failed.
C5_CandidatesInOrderFallbackLast ==
  /\ [] ( InRow =>
            /\ IsPrefixOf(navs, candidate_urls(code))
            /\ pc = "get" => Len(navs) = attempt - 1
            /\ pc \in {"wait", "extract"} => (Len(navs) = attempt /\ url = Some(candidate_urls(code)[attempt]))
            /\ fallbacks <= 1
            /\ pc = "fallback" => fallbacks = 0
            /\ fallbacks = 1 => navs = candidate_urls(code) )
  /\ [][ /\ (navs' # navs /\ navs' # <<>>) =>
              (pc = "get" /\ navs' = Append(navs, candidate_urls(code)[Len(navs) + 1]) /\ rec' = rec)
         /\ (pc' = "get" /\ pc # "get") => (pc \in {"row", "wait", "extract"})
         /\ (pc = "extract" /\ pc' = "write") =>
              (TitledSteps(doc) # {} /\ rec'[1][3] = Some(FixedCarrier) /\ recFrom' = doc.owner /\ fallbacks' = 0)
         /\ (pc = "extract" /\ pc' # "write" /\ TitledSteps(doc) # {}) =>
              (debug' # None /\ debug'.label = "exception-" \o ToString(attempt))
         /\ (pc \in {"write", "errwrite"}) => (pc' \in {"row", "errwrite", "finally"} /\ fallbacks' = fallbacks)
         /\ (pc' = "fallback") =>
              (pc \in {"get", "wait", "extract"} /\ attempt = NumCandidates /\ navs' = candidate_urls(code))
         /\ (pc = "fallback") => (pc' = "write" /\ fallbacks' = 1 /\ navs' = navs) ]_vars

C5_Witness ==
  /\ pc = "write"
  /\ Len(navs) = 3
  /\ attempt = 3
  /\ fallbacks = 0
  /\ rec[1][1] = Some("Out for delivery")
  /\ debug = None

PhraseIn(c, lowered) == Contains(Lower(c), lowered)

Classified(list) ==
  {k \in 1..Len(list) :
     LET lowered == Lower(list[k])
     IN \E n \in 1..Len(status_candidates) : PhraseIn(status_candidates[n], lowered)}

FirstOf(list, t) ==
  LET lowered == Lower(t)
      found == {n \in 1..Len(list) : PhraseIn(list[n], lowered)}
  IN IF found = {} THEN None ELSE Some(list[Min(found)])

\* C7: the fallback status is the first vocabulary phrase of the first fragment
\* that contains one; date and carrier come from that fragment alone; with no
\* such fragment the status is "Sin clasificar" with no date and no carrier;
\* the observation is all the fragments joined by " | ", cut to 900 characters.
C7_FallbackUsesFirstMatchingFragment ==
  (pc = "write" /\ texts # <<>>) =>
    LET r == rec[1]
        joined == Join(" | ", texts)
    IN /\ IF Classified(texts) = {}
          THEN r[1] = Some("Sin clasificar") /\ r[2] = None /\ r[3] = None
          ELSE LET t == texts[Min(Classified(texts))]
               IN /\ r[1] = FirstOf(status_candidates, t)
                  /\ r[2] = SearchDate(t)
                  /\ r[3] = FirstOf(carrier_keywords, t)
       /\ Len(r[4]) = (IF Len(joined) <= 900 THEN Len(joined) ELSE 900)
       /\ r[4] = SubSeq(joined, 1, Len(r[4]))

C7_Witness ==
  /\ pc = "write"
  /\ texts = << "random text with code AB1234 only", "Paquete Entregado en La Paz el 2024-03-01",
                "2023-12-31 Cochabamba, Bolivia: sin novedad" >>
  /\ rec[1] = << Some("Entregado"), Some("2024-03-01"), Some("La Paz"),
                 "random text with code AB1234 only | Paquete Entregado en La Paz el 2024-03-01 | 2023-12-31 Cochabamba, Bolivia: sin novedad" >>

\* a candidate attempt ends without a ready page: the navigation raised, the
\* readiness window elapsed, or the wait was left by an exception
AttemptEndsUnready ==
  \/ pc = "get" /\ pc' \in {"get", "fallback"}
  \/ pc = "wait" /\ pc' \in {"get", "fallback", "errwrite"}

\* C8 as stated: every attempt that ends without a ready page, whatever made it
\* unready, writes the markup file tagged with the attempt index and the
\* screenshot, at that attempt.
C8_Original ==
  [][ AttemptEndsUnready =>
        /\ debug' # None
        /\ debug'.row = i
        /\ debug'.html = Some("pagina_debug-no-timeline-" \o ToString(attempt) \o ".html")
        /\ debug'.png = Some("last_page.png") ]_vars

\* C8 amended: save_debug is called with the label no-timeline-<attempt index>
\* on every attempt whose navigation succeeded and whose readiness window
\* elapsed without a ready page, at that attempt and before the next candidate
\* is tried; each of its two writes (markup file tagged with the attempt index,
\* screenshot) is best effort, a failed write being swallowed; an attempt whose
\* navigation raised, or whose scroll action raised, leaves no artifact.
C8_DebugSavedWhenWindowElapses ==
  [][ /\ (pc = "wait" /\ pc' \in {"get", "fallback"}) =>
           /\ debug' # None
           /\ debug'.label = "no-timeline-" \o ToString(attempt)
           /\ debug'.row = i
           /\ debug'.html \in {None, Some("pagina_debug-no-timeline-" \o ToString(attempt) \o ".html")}
           /\ debug'.markupOf \in {None, Some(code)}
           /\ (debug'.html = None) = (debug'.markupOf = None)
           /\ debug'.png \in {None, Some("last_page.png")}
           /\ doc' = doc
      /\ ((pc = "get" /\ pc' \in {"get", "fallback"}) \/ (pc = "wait" /\ pc' = "errwrite")) =>
           debug' = None ]_vars

C8_Witness ==
  /\ pc = "get"
  /\ attempt = 3
  /\ debug # None
  /\ debug.label = "no-timeline-2"
  /\ debug.html = Some("pagina_debug-no-timeline-2.html")
  /\ debug.png = Some("last_page.png")

LastWrite == writes'[Len(writes')]

\* the cells of row r that differ between the worksheet before and after a step
ChangedCells(r) ==
  {c \in 1..(COL_DONE + Len(sheet[r]) + Len(sheet'[r])) : Cell(sheet'[r], c) # Cell(sheet[r], c)}

AbsentAsEmpty(x) == IF x = None THEN "" ELSE x[1]

\* C9: a write for row i touches only row i; a success write covers exactly
\* C..G with (status, date, carrier, run timestamp, observation), absent fields
\* as ""; a failure write covers exactly F..G with (run timestamp, error label)
\* and leaves C..E alone; columns A, B, H, the header and the other rows never
\* change.
C9_WritesStayInTheirRowAndColumns ==
  [][ /\ Len(sheet') = Len(sheet)
      /\ sheet' # sheet =>
           \A r \in 1..Len(sheet) : ChangedCells(r) # {} => (r = i /\ r >= 2 /\ writes' # writes)
      /\ writes' # writes =>
           /\ Len(writes') = Len(writes) + 1
           /\ LastWrite.row = i
           /\ \/ /\ pc = "write"
                 /\ LastWrite.range = "C" \o ToString(i) \o ":G" \o ToString(i)
                 /\ LastWrite.values = << AbsentAsEmpty(rec[1][1]), AbsentAsEmpty(rec[1][2]),
                                         AbsentAsEmpty(rec[1][3]), RunTimestamp(Len(writes)), rec[1][4] >>
                 /\ ChangedCells(i) \subseteq 3..7
                 /\ ChangedCells(i) # {} => \A c \in 3..7 : Cell(sheet'[i], c) = LastWrite.values[c - 2]
                 /\ pc' = "row" => \A c \in 3..7 : Cell(sheet'[i], c) = LastWrite.values[c - 2]
              \/ /\ pc = "errwrite"
                 /\ LastWrite.range = "F" \o ToString(i) \o ":G" \o ToString(i)
                 /\ LastWrite.values = <<RunTimestamp(Len(writes)), "Error " \o exc[1]>>
                 /\ ChangedCells(i) \subseteq 6..7
                 /\ ChangedCells(i) # {} => \A c \in 6..7 : Cell(sheet'[i], c) = LastWrite.values[c - 5]
                 /\ pc' = "row" => \A c \in 6..7 : Cell(sheet'[i], c) = LastWrite.values[c - 5] ]_vars

C9_Witness ==
  /\ pc = "done"
  /\ Len(sheet) = 3
  /\ sheet[1] = HeaderRow
  /\ Cell(sheet[2], COL_CODE) = " PKG001 "
  /\ Cell(sheet[2], COL_DATE) = "2024-03-01"
  /\ Cell(sheet[2], COL_CARRIER) = "La Paz"
  /\ Cell(sheet[2], COL_DONE) = ""
  /\ Cell(sheet[3], COL_STATUS) = "viejo"
  /\ Cell(sheet[3], COL_CARRIER) = "DHL"
  /\ Cell(sheet[3], COL_OBS) = "Error TimeoutException"
  /\ Cell(sheet[3], COL_DONE) = "okay"

\* C10: a record that carries page content (anything but the "no visible
\* results" record of an empty collection) is built only from a document loaded
\* by a navigation issued for the code it is written for, never from the
\* document the previously processed code left loaded.
C10_RecordFromOwnDocument ==
  (pc = "write" /\ rec[1] # <<None, None, None, "Sin resultados visibles">>) => recFrom = code

====
